---- MODULE Spec2Model ----
(***************************************************************************)
(* The incident.io Terraform provider: the Provider Root's Configure and   *)
(* the catalog type Resource Adapter (Configure, Create, Read, Update,     *)
(* Delete, ImportState, buildModel), run against a remote catalog API.     *)
(*                                                                         *)
(* Text that the code only copies (names, descriptions, URLs, keys) is a   *)
(* TLA+ string.  Text that the code formats (an error response body, which *)
(* Create/Read/Update hand to fmt.Errorf as the format) is a sequence of   *)
(* one-character strings, so that the formatting is computed.              *)
(***************************************************************************)
EXTENDS Integers, Sequences, FiniteSets, TLC

VARIABLES
    resourceData,   \* provider.ConfigureResponse.ResourceData published by the Provider Root
    client,         \* IncidentCatalogTypeResource.client
    terraformVersion, \* IncidentCatalogTypeResource.terraformVersion
    server,         \* the remote catalog: identifier -> API entity
    nextId,         \* number of the next identifier the remote API assigns
    tfState,        \* the Terraform state of the one catalog type resource
    diags,          \* Diagnostics of the response of the last operation
    panicked,       \* the plugin process died of a Go panic
    last,           \* the last operation: its inputs, its API request and the API's answer
    history         \* what earlier operations established (read by the properties only)

vars == <<resourceData, client, terraformVersion, server, nextId, tfState,
          diags, panicked, last, history>>

-----------------------------------------------------------------------------
(* Bounds of the model *)

\* The remote API hands out at most this many identifiers in one run.
MaxIds == 1

-----------------------------------------------------------------------------
(* types.String of the plugin framework: null, unknown or a known value *)

StringNull == [k |-> "null", v |-> ""]

StringUnknown == [k |-> "unknown", v |-> ""]

StringValue(s) == [k |-> "value", v |-> s]

IsNull(x) == x.k = "null"

IsUnknown(x) == x.k = "unknown"

\* types.String.ValueString: the known value, "" for null and unknown.
ValueString(x) == IF x.k = "value" THEN x.v ELSE ""

-----------------------------------------------------------------------------
(* Provider Root: provider.go *)

DefaultEndpoint == "https://api.incident.io"

\* Mutant: the provider block wins over the environment.
ResolveEndpointConfigFirst(envEndpoint, cfgEndpoint) ==
    IF ~(IsNull(cfgEndpoint) \/ IsUnknown(cfgEndpoint)) THEN ValueString(cfgEndpoint)
    ELSE IF envEndpoint # "" THEN envEndpoint
    ELSE DefaultEndpoint

\* The endpoint chosen by IncidentProvider.Configure.
ResolveEndpoint(envEndpoint, cfgEndpoint) ==
    IF envEndpoint # "" THEN envEndpoint
    ELSE IF IsNull(cfgEndpoint) \/ IsUnknown(cfgEndpoint) THEN DefaultEndpoint
    ELSE ValueString(cfgEndpoint)

\* The API key chosen by IncidentProvider.Configure.
ResolveAPIKey(envKey, cfgKey) ==
    IF IsNull(cfgKey) \/ IsUnknown(cfgKey) THEN envKey
    ELSE ValueString(cfgKey)

\* A Go interface value: its dynamic type and what it holds.
NilData == [type |-> "nil", endpoint |-> "", apiKey |-> "", version |-> ""]

\* client.NewClientWithResponses(endpoint, ...) with the bearer token editor.
ClientWithResponses(endpoint, apiKey) ==
    [type |-> "*client.ClientWithResponses", endpoint |-> endpoint,
     apiKey |-> apiKey, version |-> ""]

\* An *IncidentProviderData{Client, TerraformVersion} wrapping a client.
IncidentProviderData(c, ver) ==
    [type |-> "*IncidentProviderData", endpoint |-> c.endpoint,
     apiKey |-> c.apiKey, version |-> ver]

\* What IncidentProvider.Configure publishes as resp.ResourceData.
PublishedData(endpoint, apiKey) == ClientWithResponses(endpoint, apiKey)

-----------------------------------------------------------------------------
(* The resource model and the API entity: incident_catalog_type_resource.go *)

\* IncidentCatalogTypeResourceModel; present = FALSE is a state with no resource.
Model(id, name, typeName, description, sourceRepoURL) ==
    [present |-> TRUE, ID |-> id, Name |-> name, TypeName |-> typeName,
     Description |-> description, SourceRepoURL |-> sourceRepoURL]

NoModel ==
    [present |-> FALSE, ID |-> StringNull, Name |-> StringNull, TypeName |-> StringNull,
     Description |-> StringNull, SourceRepoURL |-> StringNull]

\* A *string of the generated client: nil or a pointer to a string.
NilPtr == [set |-> FALSE, v |-> ""]

Ptr(s) == [set |-> TRUE, v |-> s]

\* client.CatalogTypeV2, the entity of an API response.
NoEntity == [Id |-> "", Name |-> "", TypeName |-> "", Description |-> "", SourceRepoUrl |-> NilPtr]

\* Mutant: the identifier of the entity is not copied into the model.
buildModelWithoutId(catalogType) ==
    Model(StringNull,
          StringValue(catalogType.Name),
          StringValue(catalogType.TypeName),
          StringValue(catalogType.Description),
          IF catalogType.SourceRepoUrl.set
          THEN StringValue(catalogType.SourceRepoUrl.v)
          ELSE StringNull)

\* API entity -> resource model; an optional field is set only for a non-nil pointer.
buildModel(catalogType) ==
    Model(StringValue(catalogType.Id),
          StringValue(catalogType.Name),
          StringValue(catalogType.TypeName),
          StringValue(catalogType.Description),
          IF catalogType.SourceRepoUrl.set
          THEN StringValue(catalogType.SourceRepoUrl.v)
          ELSE StringNull)

\* A JSON object with no field.
EmptyBody == [f \in {} |-> ""]

\* Mutant: the field is carried whenever the plan's string is known.
OptionalFieldIfKnown(name, value) ==
    IF value.k = "value" THEN (name :> ValueString(value)) ELSE EmptyBody

\* An optional request field: carried when the plan's string is not "".
OptionalField(name, value) ==
    IF ValueString(value) # "" THEN (name :> ValueString(value)) ELSE EmptyBody

\* The annotation map every request carries.
Annotations(version) == [annotations |-> version]

\* client.CreateTypeRequestBody as Create builds it from the plan.
CreateRequestBody(data, version) ==
    [name |-> ValueString(data.Name), description |-> ValueString(data.Description)]
        @@ Annotations(version)
        @@ OptionalField("type_name", data.TypeName)
        @@ OptionalField("source_repo_url", data.SourceRepoURL)

\* Mutant: Update sends the plan's type name as Create does.
UpdateRequestBodyWithTypeName(data, version) ==
    [name |-> ValueString(data.Name), description |-> ValueString(data.Description)]
        @@ Annotations(version)
        @@ OptionalField("type_name", data.TypeName)
        @@ OptionalField("source_repo_url", data.SourceRepoURL)

\* client.CatalogV2UpdateTypeJSONRequestBody as Update builds it from the plan.
UpdateRequestBody(data, version) ==
    [name |-> ValueString(data.Name), description |-> ValueString(data.Description)]
        @@ Annotations(version)
        @@ OptionalField("source_repo_url", data.SourceRepoURL)

\* The identifier Read, Update and Delete put in the request path.
RequestKey(data) == ValueString(data.ID)

-----------------------------------------------------------------------------
(* Errors and diagnostics *)

\* fmt.Errorf(format) with no operand, as Create/Read/Update call it on the
\* response body: "%%" prints "%", a "%" that ends the text prints
\* "%!(NOVERB)", and "%" before a verb letter c prints "%!c(MISSING)".
\* (The texts of this model hold no flag, width or precision characters.)
RECURSIVE Errorf(_)
Errorf(format) ==
    IF format = <<>> THEN <<>>
    ELSE IF Head(format) # "%" THEN <<Head(format)>> \o Errorf(Tail(format))
    ELSE IF Len(format) = 1 THEN <<"%", "!", "(", "N", "O", "V", "E", "R", "B", ")">>
    ELSE IF format[2] = "%" THEN <<"%">> \o Errorf(SubSeq(format, 3, Len(format)))
    ELSE <<"%", "!", format[2], "(", "M", "I", "S", "S", "I", "N", "G", ")">>
             \o Errorf(SubSeq(format, 3, Len(format)))

\* result.StatusCode() >= 400
IsErrorStatus(status) == status >= 400

NoError == [isErr |-> FALSE, text |-> <<>>]

\* The err of Create, Read and Update after the call: the transport error, or
\* the response body formatted by fmt.Errorf when the status is an error.
ResponseError(resp) ==
    IF resp.err # "" THEN [isErr |-> TRUE, text |-> <<resp.err>>]
    ELSE IF IsErrorStatus(resp.status) THEN [isErr |-> TRUE, text |-> Errorf(resp.body)]
    ELSE NoError

\* The err of Delete after the call: the transport error only.
DestroyError(resp) ==
    IF resp.err # "" THEN [isErr |-> TRUE, text |-> <<resp.err>>] ELSE NoError

\* resp.Diagnostics.AddError("Client Error", "Unable to <verb> catalog type, got error: %s")
ClientError(verb, err) ==
    [summary |-> "Client Error",
     detail |-> <<"Unable to ", verb, " catalog type, got error: ">> \o err.text]

ConfigureTypeError(providerData) ==
    [summary |-> "Unexpected Resource Configure Type",
     detail |-> <<"Expected *client.Client, got: ", providerData.type,
                  ". Please report this issue to the provider developers.">>]

HasError(ds) == Len(ds) > 0

-----------------------------------------------------------------------------
(* The remote catalog API behind the generated client *)

\* Raw bodies of error responses, one character per element.
Bodies == { <<"n", "o">>, <<"%", "d">> }

NotFoundBody == <<"g", "o", "n", "e">>

\* The n-th identifier the remote API assigns.
IdOf(n) == "id" \o ToString(n)

\* The type name the remote API generates when the request carries none.
GenTypeName(id) == "Custom-" \o id

NoResponse == [err |-> "", status |-> 0, body |-> <<>>, entity |-> NoEntity]

\* The call did not complete: connection or marshaling failure.
TransportFailure == [NoResponse EXCEPT !.err = "connection refused"]

ErrorResponse(status, body) == [NoResponse EXCEPT !.status = status, !.body = body]

EntityResponse(status, entity) == [NoResponse EXCEPT !.status = status, !.entity = entity]

\* An outcome of a call: the response and the remote catalog after it.
Outcome(resp, srv, nid) == [resp |-> resp, server |-> srv, nextId |-> nid]

\* Outcomes every call can have whatever it asks: the call fails in
\* transport, or the API refuses it with a 5xx and some body.
Failures(srv, nid) ==
    {Outcome(TransportFailure, srv, nid)}
        \cup {Outcome(ErrorResponse(500, b), srv, nid) : b \in Bodies}

\* POST /v2/catalog_types
ApiCreateType(srv, nid, body) ==
    LET id == IdOf(nid)
        entity == [Id |-> id,
                   Name |-> body.name,
                   TypeName |-> IF "type_name" \in DOMAIN body
                                THEN body.type_name ELSE GenTypeName(id),
                   Description |-> body.description,
                   SourceRepoUrl |-> IF "source_repo_url" \in DOMAIN body
                                     THEN Ptr(body.source_repo_url) ELSE NilPtr]
    IN  Failures(srv, nid)
            \cup {Outcome(EntityResponse(201, entity), srv @@ (id :> entity), nid + 1)}

\* GET /v2/catalog_types/{id}
ApiShowType(srv, nid, id) ==
    Failures(srv, nid)
        \cup {IF id \in DOMAIN srv
              THEN Outcome(EntityResponse(200, srv[id]), srv, nid)
              ELSE Outcome(ErrorResponse(404, NotFoundBody), srv, nid)}

\* PUT /v2/catalog_types/{id}: the type name of an entity is never changed.
ApiUpdateType(srv, nid, id, body) ==
    Failures(srv, nid)
        \cup {IF id \in DOMAIN srv
              THEN LET entity == [srv[id] EXCEPT
                           !.Name = body.name,
                           !.Description = body.description,
                           !.SourceRepoUrl = IF "source_repo_url" \in DOMAIN body
                                             THEN Ptr(body.source_repo_url) ELSE NilPtr]
                   IN  Outcome(EntityResponse(200, entity),
                               [srv EXCEPT ![id] = entity], nid)
              ELSE Outcome(ErrorResponse(404, NotFoundBody), srv, nid)}

\* DELETE /v2/catalog_types/{id}
ApiDestroyType(srv, nid, id) ==
    Failures(srv, nid)
        \cup {IF id \in DOMAIN srv
              THEN Outcome([NoResponse EXCEPT !.status = 204],
                           [i \in DOMAIN srv \ {id} |-> srv[i]], nid)
              ELSE Outcome(ErrorResponse(404, NotFoundBody), srv, nid)}

-----------------------------------------------------------------------------
(* Inputs *)

\* Values of the INCIDENT_ENDPOINT and INCIDENT_API_KEY environment variables.
EnvEndpoints == {"", "https://env.example"}

EnvKeys == {"", "env-key"}

\* Values of the endpoint and api_key attributes of the provider block.
ConfigEndpoints ==
    {StringNull, StringUnknown, StringValue(""), StringValue("https://cfg.example")}

ConfigKeys == {StringNull, StringUnknown, StringValue(""), StringValue("cfg-key")}

TerraformVersions == {"1.5.0"}

\* Plans of Create: id is computed (unknown), type_name is optional and
\* computed (unknown when the configuration sets none), source_repo_url is optional.
CreatePlans ==
    {Model(StringUnknown, StringValue(n), t, StringValue("d1"), u) :
        n \in {"n1"},
        t \in {StringUnknown, StringValue(""), StringValue("t1")},
        u \in {StringNull, StringValue(""), StringValue("u1")}}

\* Plans of Update: id is the prior state's (UseStateForUnknown); the type
\* name is the state's or, to cover any plan, another one.
UpdatePlans(prior) ==
    {Model(prior.ID, StringValue(n), t, StringValue("d1"), u) :
        n \in {"n2"},
        t \in {prior.TypeName, StringValue("t2")},
        u \in {StringNull, StringValue(""), StringValue("u1")}}

\* Identifiers handed to ImportState.
ImportIds == {IdOf(n) : n \in 1..MaxIds}

-----------------------------------------------------------------------------
(* The record of the last operation and of what earlier ones established *)

NoConfig == [envEndpoint |-> "", cfgEndpoint |-> StringNull,
             envKey |-> "", cfgKey |-> StringNull]

NoOp == [op |-> "", cfg |-> NoConfig, providerData |-> NilData, plan |-> NoModel,
         prior |-> NoModel, importId |-> "", reqId |-> "", reqBody |-> EmptyBody,
         resp |-> NoResponse]

NoFn == [i \in {} |-> ""]

NoHistory == [seq |-> "", cplan |-> NoModel, cmodel |-> NoModel,
              typeAtCreate |-> NoFn, createRead |-> NoFn, deleted |-> {}]

\* history once an operation that starts no sequence has run.
Broken(h) == [h EXCEPT !.seq = "", !.cplan = NoModel, !.cmodel = NoModel]

Without(f, id) == [i \in DOMAIN f \ {id} |-> f[i]]

With(f, id, val) == (id :> val) @@ f

-----------------------------------------------------------------------------
(* Operations *)

Init ==
    /\ resourceData = NilData
    /\ client = NilData
    /\ terraformVersion = ""
    /\ server = NoFn
    /\ nextId = 1
    /\ tfState = NoModel
    /\ diags = <<>>
    /\ panicked = FALSE
    /\ last = NoOp
    /\ history = NoHistory

\* IncidentProvider.Configure, run once by the framework, with the
\* environment and the provider block drawn from the given sets.
ProviderConfigureFrom(envEndpoints, cfgEndpoints, envKeys, cfgKeys) ==
    /\ ~panicked
    /\ resourceData = NilData
    /\ \E envEndpoint \in envEndpoints, cfgEndpoint \in cfgEndpoints,
          envKey \in envKeys, cfgKey \in cfgKeys :
          LET endpoint == ResolveEndpoint(envEndpoint, cfgEndpoint)
              apiKey == ResolveAPIKey(envKey, cfgKey)
          IN  /\ resourceData' = PublishedData(endpoint, apiKey)
              /\ last' = [NoOp EXCEPT !.op = "ProviderConfigure",
                              !.cfg = [envEndpoint |-> envEndpoint, cfgEndpoint |-> cfgEndpoint,
                                       envKey |-> envKey, cfgKey |-> cfgKey]]
    /\ diags' = <<>>
    /\ UNCHANGED <<client, terraformVersion, server, nextId, tfState, panicked, history>>

\* Every combination of environment and provider block.
ProviderConfigure ==
    ProviderConfigureFrom(EnvEndpoints, ConfigEndpoints, EnvKeys, ConfigKeys)

\* The usual setup: no endpoint anywhere, the key in the environment.
ProviderConfigureUsual ==
    ProviderConfigureFrom({""}, {StringNull}, {"env-key"}, {StringNull})

\* What a caller can hand to the adapter's Configure as req.ProviderData:
\* nil, the value the Provider Root published, or an *IncidentProviderData
\* around the client the Provider Root built.
ProviderDataInputs ==
    {NilData, resourceData}
        \cup (IF resourceData = NilData THEN {}
              ELSE {IncidentProviderData(resourceData, ver) : ver \in TerraformVersions})

\* IncidentCatalogTypeResource.Configure
ResourceConfigure ==
    /\ ~panicked
    /\ \E providerData \in ProviderDataInputs :
          /\ last' = [NoOp EXCEPT !.op = "ResourceConfigure", !.providerData = providerData]
          /\ IF providerData.type = "nil"
             THEN /\ diags' = <<>>
                  /\ UNCHANGED <<client, terraformVersion>>
             ELSE IF providerData.type # "*IncidentProviderData"
             THEN /\ diags' = <<ConfigureTypeError(providerData)>>
                  /\ UNCHANGED <<client, terraformVersion>>
             ELSE /\ diags' = <<>>
                  /\ client' = ClientWithResponses(providerData.endpoint, providerData.apiKey)
                  /\ terraformVersion' = providerData.version
    /\ UNCHANGED <<resourceData, server, nextId, tfState, panicked, history>>

\* A method call through the nil client pointer: the process panics.
NilClientPanic(op) ==
    /\ client = NilData
    /\ panicked' = TRUE
    /\ last' = [NoOp EXCEPT !.op = op, !.prior = tfState]
    /\ UNCHANGED <<resourceData, client, terraformVersion, server, nextId, tfState,
                   diags, history>>

\* IncidentCatalogTypeResource.Create
Create ==
    /\ ~panicked
    /\ ~tfState.present
    /\ nextId <= MaxIds
    /\ \/ NilClientPanic("Create")
       \/ /\ client # NilData
          /\ \E data \in CreatePlans :
             LET requestBody == CreateRequestBody(data, terraformVersion) IN
             \E out \in ApiCreateType(server, nextId, requestBody) :
             LET err == ResponseError(out.resp)
                 model == buildModel(out.resp.entity)
             IN  /\ server' = out.server
                 /\ nextId' = out.nextId
                 /\ last' = [NoOp EXCEPT !.op = "Create", !.plan = data, !.prior = tfState,
                                 !.reqBody = requestBody, !.resp = out.resp]
                 /\ IF err.isErr
                    THEN /\ diags' = <<ClientError("create", err)>>
                         /\ tfState' = tfState
                         /\ history' = Broken(history)
                    ELSE /\ diags' = <<>>
                         /\ tfState' = model
                         /\ history' = [history EXCEPT
                                !.seq = "Create", !.cplan = data, !.cmodel = model,
                                !.typeAtCreate = With(@, out.resp.entity.Id,
                                                      out.resp.entity.TypeName)]
          /\ UNCHANGED <<resourceData, client, terraformVersion, panicked>>

\* IncidentCatalogTypeResource.Read
Read ==
    /\ ~panicked
    /\ tfState.present
    /\ \/ NilClientPanic("Read")
       \/ /\ client # NilData
          /\ LET data == tfState
                 id == RequestKey(data)
             IN
             \E out \in ApiShowType(server, nextId, id) :
             LET err == ResponseError(out.resp)
                 model == buildModel(out.resp.entity)
             IN  /\ server' = out.server
                 /\ nextId' = out.nextId
                 /\ last' = [NoOp EXCEPT !.op = "Read", !.prior = tfState,
                                 !.reqId = id, !.resp = out.resp]
                 /\ IF err.isErr
                    THEN /\ diags' = <<ClientError("read", err)>>
                         /\ tfState' = tfState
                         /\ history' = Broken(history)
                    ELSE /\ diags' = <<>>
                         /\ tfState' = model
                         /\ history' =
                              IF history.seq = "Create"
                              THEN [history EXCEPT !.seq = "Create;Read",
                                                   !.createRead = With(@, id, model)]
                              ELSE IF history.seq = "Import"
                              THEN [Broken(history) EXCEPT !.seq = "Import;Read"]
                              ELSE Broken(history)
          /\ UNCHANGED <<resourceData, client, terraformVersion, panicked>>

\* IncidentCatalogTypeResource.Update
Update ==
    /\ ~panicked
    /\ tfState.present
    /\ \/ NilClientPanic("Update")
       \/ /\ client # NilData
          /\ \E data \in UpdatePlans(tfState) :
             LET requestBody == UpdateRequestBody(data, terraformVersion)
                 id == RequestKey(data)
             IN
             \E out \in ApiUpdateType(server, nextId, id, requestBody) :
             LET err == ResponseError(out.resp)
                 model == buildModel(out.resp.entity)
             IN  /\ server' = out.server
                 /\ nextId' = out.nextId
                 /\ last' = [NoOp EXCEPT !.op = "Update", !.plan = data, !.prior = tfState,
                                 !.reqId = id, !.reqBody = requestBody, !.resp = out.resp]
                 /\ IF err.isErr
                    THEN /\ diags' = <<ClientError("update", err)>>
                         /\ tfState' = tfState
                         /\ history' = Broken(history)
                    ELSE /\ diags' = <<>>
                         /\ tfState' = model
                         /\ history' = [Broken(history) EXCEPT
                                            !.createRead = Without(@, id)]
          /\ UNCHANGED <<resourceData, client, terraformVersion, panicked>>

\* IncidentCatalogTypeResource.Delete; when it returns without an error
\* diagnostic the framework removes the resource from state.
Delete ==
    /\ ~panicked
    /\ tfState.present
    /\ \/ NilClientPanic("Delete")
       \/ /\ client # NilData
          /\ LET data == tfState
                 id == RequestKey(data)
             IN
             \E out \in ApiDestroyType(server, nextId, id) :
             LET err == DestroyError(out.resp)
             IN  /\ server' = out.server
                 /\ nextId' = out.nextId
                 /\ last' = [NoOp EXCEPT !.op = "Delete", !.prior = tfState,
                                 !.reqId = id, !.resp = out.resp]
                 /\ IF err.isErr
                    THEN /\ diags' = <<ClientError("delete", err)>>
                         /\ tfState' = tfState
                         /\ history' = Broken(history)
                    ELSE /\ diags' = <<>>
                         /\ tfState' = NoModel
                         /\ history' = [Broken(history) EXCEPT !.deleted = @ \cup {id}]
          /\ UNCHANGED <<resourceData, client, terraformVersion, panicked>>

\* Mutant: the identifier is seeded into the name attribute.
ImportedStateAtName(id) == [NoModel EXCEPT !.present = TRUE, !.Name = StringValue(id)]

\* The state resource.ImportStatePassthroughID(path.Root("id")) leaves.
ImportedState(id) == [NoModel EXCEPT !.present = TRUE, !.ID = StringValue(id)]

\* IncidentCatalogTypeResource.ImportState: the framework starts the import of
\* a resource address from an empty state, whatever it tracked before.
ImportState ==
    /\ ~panicked
    /\ \E id \in ImportIds :
          /\ tfState' = ImportedState(id)
          /\ last' = [NoOp EXCEPT !.op = "ImportState", !.prior = tfState, !.importId = id]
    /\ diags' = <<>>
    /\ history' = [Broken(history) EXCEPT !.seq = "Import"]
    /\ UNCHANGED <<resourceData, client, terraformVersion, server, nextId, panicked>>

\* The lifecycle of the catalog type resource behind one provider setup.
Next ==
    \/ ProviderConfigureUsual
    \/ ResourceConfigure
    \/ Create
    \/ Read
    \/ Update
    \/ Delete
    \/ ImportState

Spec == Init /\ [][Next]_vars

\* The configure steps alone, over every provider setup.
NextConfigure ==
    \/ ProviderConfigure
    \/ ResourceConfigure

SpecConfigure == Init /\ [][NextConfigure]_vars

-----------------------------------------------------------------------------
(* Properties *)

Lifecycle == {"Create", "Read", "Update", "Delete"}

\* The last operation was op and it reached the API.
Called(op) == last.op = op /\ ~panicked

\* The API answered the last call with a status below 400.
Answered2xx == last.resp.err = "" /\ last.resp.status \in 200..399

\* The API call of the last operation failed: in transport or by its status.
ApiFailed == last.resp.err # "" \/ last.resp.status >= 400

\* text occurs in s as a contiguous run.
Contains(s, text) ==
    \E i \in 0..(Len(s) - Len(text)) : SubSeq(s, i + 1, i + Len(text)) = text

\* C1: whenever the API call of Create, Read, Update or Delete returns
\* without a transport error but with a status >= 400, the operation adds an
\* error diagnostic whose message contains the raw response body unchanged.
C1_ErrorStatusSurfaced ==
    \A op \in Lifecycle :
        (Called(op) /\ last.resp.err = "" /\ last.resp.status >= 400)
            => \E i \in 1..Len(diags) : Contains(diags[i].detail, last.resp.body)

\* C2: whenever the API call of Create, Read, Update or Delete fails (transport
\* error or status >= 400), the operation reports a diagnostic and the
\* Terraform state is exactly what it was before the operation.
C2_FailureLeavesState ==
    \A op \in Lifecycle :
        (Called(op) /\ ApiFailed) => (HasError(diags) /\ tfState = last.prior)

\* C3: after the Provider Root's Configure, the adapter's Configure given the
\* data the provider published adds no error diagnostic and binds the client.
C3_PublishedDataBindsClient ==
    (last.op = "ResourceConfigure" /\ resourceData # NilData
        /\ last.providerData = resourceData)
        => (~HasError(diags) /\ client # NilData)

\* The model agrees with the plan on every field the server does not compute.
PlanAgrees(plan, model) ==
    /\ model.Name = plan.Name
    /\ model.Description = plan.Description
    /\ model.SourceRepoURL = plan.SourceRepoURL
    /\ (plan.TypeName.k = "value" => model.TypeName = plan.TypeName)

\* C4: a successful Create followed at once by a successful Read leaves in
\* state the model Create wrote, and that model agrees with the plan on name,
\* description, source_repo_url, and type_name when the plan supplied it.
C4_CreateReadRoundTrip ==
    /\ history.seq \in {"Create", "Create;Read"} => PlanAgrees(history.cplan, tfState)
    /\ history.seq = "Create;Read" => tfState = history.cmodel

\* C5: a Read of an identifier for which a Delete has completed (no Create of
\* it since) adds an error diagnostic and writes no model to state.
C5_ReadAfterDeleteFails ==
    (Called("Read") /\ last.reqId \in history.deleted)
        => (HasError(diags) /\ tfState = last.prior)

\* C6: the request body of Update never carries type_name, whatever the plan
\* holds, and after a successful Update the type_name in state is the one
\* established when the entity was created.
C6_UpdateKeepsTypeName ==
    /\ last.op = "Update" => "type_name" \notin DOMAIN last.reqBody
    /\ (Called("Update") /\ Answered2xx)
          => /\ last.reqId \in DOMAIN history.typeAtCreate
             /\ tfState.TypeName = StringValue(history.typeAtCreate[last.reqId])

\* C6 witness: a successful Update whose plan asked for another type name.
C6_Witness ==
    /\ Called("Update") /\ Answered2xx
    /\ last.plan.TypeName = StringValue("t2")
    /\ tfState.TypeName # StringValue("t2")
    /\ tfState.Name # last.prior.Name

\* C7: ImportState sets the id attribute and nothing else, and the Read that
\* follows writes exactly the model that Create followed by Read wrote for
\* the entity with that identifier (the entity not updated since).
C7_ImportThenReadReproduces ==
    /\ last.op = "ImportState"
          => /\ tfState.present
             /\ tfState.ID = StringValue(last.importId)
             /\ \A f \in {"Name", "TypeName", "Description", "SourceRepoURL"} :
                    tfState[f] = StringNull
    /\ (history.seq = "Import;Read" /\ Called("Read")
            /\ last.reqId \in DOMAIN history.createRead)
          => tfState = history.createRead[last.reqId]

\* C7 witness: a Read after an import wrote the model of an entity that a
\* Create and Read had produced before.
C7_Witness ==
    /\ history.seq = "Import;Read" /\ Called("Read") /\ Answered2xx
    /\ last.prior = [NoModel EXCEPT !.present = TRUE, !.ID = StringValue(last.reqId)]
    /\ last.reqId \in DOMAIN history.createRead
    /\ tfState.Name.k = "value"

\* C8: after a successful Create, Read or Update the identifier in state is
\* known and is the identifier of the entity in the response; Read, Update
\* and Delete select the entity by the identifier of the prior state.
C8_IdentifierPopulatedAndSoleKey ==
    /\ \A op \in {"Create", "Read", "Update"} :
          (Called(op) /\ Answered2xx)
             => /\ tfState.ID.k = "value"
                /\ tfState.ID.v = last.resp.entity.Id
                /\ tfState.ID.v # ""
    /\ \A op \in {"Read", "Update", "Delete"} :
          Called(op) => (last.prior.ID.k = "value" /\ last.reqId = last.prior.ID.v)

\* C8 witness: a successful Update of an entity selected by the state's id.
C8_Witness ==
    /\ Called("Update") /\ Answered2xx
    /\ last.reqId = "id1"
    /\ tfState.ID = StringValue("id1")

\* C9: the endpoint is INCIDENT_ENDPOINT when non-empty, else the endpoint of
\* the provider block when set and known, else https://api.incident.io; the
\* credential is api_key of the provider block when set and known, else
\* INCIDENT_API_KEY.
C9_ConfigurePrecedence ==
    last.op = "ProviderConfigure"
        => /\ resourceData.endpoint =
                 CASE last.cfg.envEndpoint # "" -> last.cfg.envEndpoint
                   [] last.cfg.envEndpoint = "" /\ last.cfg.cfgEndpoint.k = "value"
                          -> last.cfg.cfgEndpoint.v
                   [] OTHER -> "https://api.incident.io"
           /\ resourceData.apiKey =
                 CASE last.cfg.cfgKey.k = "value" -> last.cfg.cfgKey.v
                   [] OTHER -> last.cfg.envKey

\* C9 witness: environment and provider block both name an endpoint and a key.
C9_Witness ==
    /\ last.op = "ProviderConfigure"
    /\ last.cfg.envEndpoint = "https://env.example"
    /\ last.cfg.cfgEndpoint = StringValue("https://cfg.example")
    /\ last.cfg.envKey = "env-key"
    /\ last.cfg.cfgKey = StringValue("cfg-key")
    /\ resourceData.endpoint = "https://env.example"
    /\ resourceData.apiKey = "cfg-key"

\* The request body carries the field exactly when the plan's value is a
\* non-empty string, and then with that string.
SentIffNonEmpty(field, value) ==
    /\ field \in DOMAIN last.reqBody <=> (value.k = "value" /\ value.v # "")
    /\ field \in DOMAIN last.reqBody => last.reqBody[field] = value.v

\* C10: Create and Update put source_repo_url in the request body if and only
\* if the plan's value is a non-empty string, and Create does the same for
\* type_name; an Update whose plan sets no source_repo_url sends none.
C10_OptionalFieldsSentIffNonEmpty ==
    /\ (Called("Create") \/ Called("Update"))
          => SentIffNonEmpty("source_repo_url", last.plan.SourceRepoURL)
    /\ Called("Create") => SentIffNonEmpty("type_name", last.plan.TypeName)

\* C10 witness: an Update of a resource that had a source_repo_url, under a
\* plan that no longer sets it, sent no source_repo_url.
C10_Witness ==
    /\ Called("Update")
    /\ last.prior.SourceRepoURL = StringValue("u1")
    /\ last.plan.SourceRepoURL = StringNull
    /\ "source_repo_url" \notin DOMAIN last.reqBody

====
